---------------------------- MODULE Spec2Model ----------------------------
(***************************************************************************)
(* A model of plutus.Pair (src/plutus.py): the lazily filled kline cache   *)
(* and the read-only queries over it (get_candle, get_highest_high,        *)
(* get_lowest_low, is_up_fractal, is_down_fractal).                        *)
(*                                                                         *)
(* Python values are encoded as follows.                                   *)
(*   - None is the empty tuple << >>, any other optional value x is <<x>>. *)
(*   - A list is a sequence; Python index i is TLA+ index i + 1.           *)
(*   - A kline is a record [t, high, low]: fields 0, 2 and 3 of the raw    *)
(*     list the client returns (open, close and the rest are not read by   *)
(*     the operations modelled here).                                      *)
(*   - A price is the string the exchange sends, kept as <<digits, scale>> *)
(*     ("2.0" is <<20, 1>>); Decimal() turns it into a comparable number.  *)
(***************************************************************************)
EXTENDS Integers, Sequences, FiniteSets, TLC

VARIABLES
    source,     \* what client.get_historical_klines would return now, per interval
    _data,      \* Pair._data: None, or the dict interval -> list of klines
    calls,      \* number of get_historical_klines calls made so far, per interval
    fetched,    \* history: None, or the responses the client gave when _data was built
    last        \* the last query made on the Pair: its name, arguments and result

vars == <<source, _data, calls, fetched, last>>

-----------------------------------------------------------------------------
(* Bounds of the model.                                                    *)

\* Longest response of the data source in the specification of the cache.
MaxFetch == 2
\* Longest kline list in the specification of the extrema search.
MaxExtLen == 3
\* Longest kline list in the specification of the fractal checks.
MaxFracLen == 5

-----------------------------------------------------------------------------
(* Python values.                                                          *)

None == << >>
Some(x) == <<x>>

\* constants.INTERVALS, the intervals Pair.data loads.
INTERVALS == {"1h", "1d"}

\* An interval key that is not in INTERVALS.
UnknownInterval == "1w"

Intervals == INTERVALS \cup {UnknownInterval}

RECURSIVE Pow10(_)
Pow10(n) == IF n = 0 THEN 1 ELSE 10 * Pow10(n - 1)

\* The price strings the data source uses: "1", "2.0" and "3".
RawPrices == {<<1, 0>>, <<20, 1>>, <<3, 0>>}

\* Decimal(str): the exact value of a price string, in tenths.
Decimal(raw) == raw[1] * Pow10(1 - raw[2])

\* reversed(list)
reversed(list) == [i \in 1..Len(list) |-> list[Len(list) + 1 - i]]

\* list[index], None standing for IndexError; a negative index counts from the end.
GetItem(list, index) ==
    IF index >= 0 /\ index < Len(list) THEN Some(list[index + 1])
    ELSE IF index < 0 /\ index >= -Len(list) THEN Some(list[Len(list) + index + 1])
    ELSE None

\* list[start:stop] for integers start and stop.
Slice(list, start, stop) ==
    LET n == Len(list)
        norm(i) == IF i < 0 THEN (IF i + n < 0 THEN 0 ELSE i + n)
                   ELSE (IF i > n THEN n ELSE i)
    IN SubSeq(list, norm(start) + 1, norm(stop))

\* list.index(value): the position of the first element equal to value.
ListIndex(list, value) ==
    CHOOSE i \in 0..(Len(list) - 1) :
        /\ list[i + 1] = value
        /\ \A j \in 0..(i - 1) : list[j + 1] # value

\* max(list) and min(list) of a non-empty list of numbers.
max(list) == CHOOSE v \in {list[i] : i \in 1..Len(list)} :
                 \A i \in 1..Len(list) : list[i] <= v
min(list) == CHOOSE v \in {list[i] : i \in 1..Len(list)} :
                 \A i \in 1..Len(list) : list[i] >= v

\* `not x` for an optional integer: None and 0 are both falsy.
NotInt(x) == x = None \/ x[1] = 0

-----------------------------------------------------------------------------
(* Pair.data and Pair._get_interval_data.                                  *)

\* A variant of NotData that also takes a dict of empty lists for a missing
\* cache (`not any(self._data.values())`).
NotData_or_all_empty(d) ==
    \/ d = None
    \/ \A interval \in DOMAIN d[1] : d[1][interval] = << >>

\* `not self._data`: None and the empty dict are falsy.
NotData(d) == d = None \/ DOMAIN d[1] = {}

\* A variant of data that stores the responses as the client gave them.
data_not_reversed(d, c, src) ==
    IF NotData(d)
    THEN [_data |-> Some([interval \in INTERVALS |-> src[interval]]),
          calls |-> [interval \in INTERVALS |-> c[interval] + 1]]
    ELSE [_data |-> d, calls |-> c]

\* A variant of data that loads the interval "1h" only.
data_first_interval_only(d, c, src) ==
    IF NotData(d)
    THEN [_data |-> Some([interval \in {"1h"} |-> reversed(src[interval])]),
          calls |-> [interval \in INTERVALS |->
                        IF interval = "1h" THEN c[interval] + 1 ELSE c[interval]]]
    ELSE [_data |-> d, calls |-> c]

\* Reading the property Pair.data when self._data is d and the client has been
\* called c[interval] times: the new self._data and the new call counts.  The
\* comprehension calls the client once for every interval of INTERVALS.
data(d, c, src) ==
    IF NotData(d)
    THEN [_data |-> Some([interval \in INTERVALS |-> reversed(src[interval])]),
          calls |-> [interval \in INTERVALS |-> c[interval] + 1]]
    ELSE [_data |-> d, calls |-> c]

\* self.data.get(interval, []) on a loaded cache d.
_get_interval_data(d, interval) ==
    IF interval \in DOMAIN d[1] THEN d[1][interval] ELSE << >>

-----------------------------------------------------------------------------
(* The queries, as functions of the interval's list.                       *)

get_candle(list, index) == GetItem(list, index)

\* A variant of get_highest_high that rejects a window running past the end.
get_highest_high_whole_window(list, start_index, count) ==
    LET highs == [i \in 1..Len(list) |-> Decimal(list[i].high)]
        s == IF NotInt(start_index) THEN 0 ELSE start_index[1]
        c == IF NotInt(count) THEN Len(list) ELSE count[1]
    IN IF s + c > Len(list) THEN None
       ELSE LET filtered_data == Slice(list, s, s + c)
                filtered_highs == [i \in 1..Len(filtered_data) |->
                                      Decimal(filtered_data[i].high)]
            IN IF filtered_highs # << >>
               THEN Some(ListIndex(highs, max(filtered_highs)))
               ELSE None

get_highest_high(list, start_index, count) ==
    LET highs == [i \in 1..Len(list) |-> Decimal(list[i].high)]
        s == IF NotInt(start_index) THEN 0 ELSE start_index[1]
        c == IF NotInt(count) THEN Len(list) ELSE count[1]
    IN IF c > Len(list) THEN None
       ELSE LET filtered_data == Slice(list, s, s + c)
                filtered_highs == [i \in 1..Len(filtered_data) |->
                                      Decimal(filtered_data[i].high)]
            IN IF filtered_highs # << >>
               THEN Some(ListIndex(highs, max(filtered_highs)))
               ELSE None

get_lowest_low(list, start_index, count) ==
    LET lows == [i \in 1..Len(list) |-> Decimal(list[i].low)]
        s == IF NotInt(start_index) THEN 0 ELSE start_index[1]
        c == IF NotInt(count) THEN Len(list) ELSE count[1]
    IN IF c > Len(list) THEN None
       ELSE LET filtered_data == Slice(list, s, s + c)
                filtered_lows == [i \in 1..Len(filtered_data) |->
                                     Decimal(filtered_data[i].low)]
            IN IF filtered_lows # << >>
               THEN Some(ListIndex(lows, min(filtered_lows)))
               ELSE None

\* A variant of the loop of is_up_fractal that lets equal lows pass.
RECURSIVE UpFractalLoop_ties_pass(_, _, _, _, _)
UpFractalLoop_ties_pass(list, candle, index, offset, each_side) ==
    IF offset > each_side THEN Some(TRUE)
    ELSE LET adjacent_left == get_candle(list, index + offset)
             adjacent_right == get_candle(list, index - offset)
         IN IF candle # None /\ adjacent_left # None /\ adjacent_right # None
            THEN IF \/ Decimal(candle[1].low) > Decimal(adjacent_left[1].low)
                    \/ Decimal(candle[1].low) > Decimal(adjacent_right[1].low)
                 THEN Some(FALSE)
                 ELSE UpFractalLoop_ties_pass(list, candle, index, offset + 1,
                                              each_side)
            ELSE None

\* The loop of is_up_fractal from `offset` to candles_each_side_to_check.
RECURSIVE UpFractalLoop(_, _, _, _, _)
UpFractalLoop(list, candle, index, offset, each_side) ==
    IF offset > each_side THEN Some(TRUE)
    ELSE LET adjacent_left == get_candle(list, index + offset)
             adjacent_right == get_candle(list, index - offset)
         IN IF candle # None /\ adjacent_left # None /\ adjacent_right # None
            THEN IF \/ Decimal(candle[1].low) >= Decimal(adjacent_left[1].low)
                    \/ Decimal(candle[1].low) >= Decimal(adjacent_right[1].low)
                 THEN Some(FALSE)
                 ELSE UpFractalLoop(list, candle, index, offset + 1, each_side)
            ELSE None

\* A variant of is_up_fractal whose loop stops one offset early
\* (range(1, candles_each_side_to_check)).
is_up_fractal_one_offset_short(list, index, count) ==
    LET candle == get_candle(list, index)
        c == IF NotInt(count) THEN 3 ELSE count[1]
    IN IF c < 3 \/ c % 2 = 0 THEN None
       ELSE UpFractalLoop(list, candle, index, 1, ((c - 1) \div 2) - 1)

is_up_fractal(list, index, count) ==
    LET candle == get_candle(list, index)
        c == IF NotInt(count) THEN 3 ELSE count[1]
    IN IF c < 3 \/ c % 2 = 0 THEN None
       ELSE UpFractalLoop(list, candle, index, 1, (c - 1) \div 2)

\* A variant of the loop of is_down_fractal that lets equal highs pass.
RECURSIVE DownFractalLoop_ties_pass(_, _, _, _, _)
DownFractalLoop_ties_pass(list, candle, index, offset, each_side) ==
    IF offset > each_side THEN Some(TRUE)
    ELSE LET adjacent_left == get_candle(list, index + offset)
             adjacent_right == get_candle(list, index - offset)
         IN IF candle # None /\ adjacent_left # None /\ adjacent_right # None
            THEN IF \/ Decimal(candle[1].high) < Decimal(adjacent_left[1].high)
                    \/ Decimal(candle[1].high) < Decimal(adjacent_right[1].high)
                 THEN Some(FALSE)
                 ELSE DownFractalLoop_ties_pass(list, candle, index, offset + 1,
                                                each_side)
            ELSE None

\* The loop of is_down_fractal from `offset` to candles_each_side_to_check.
RECURSIVE DownFractalLoop(_, _, _, _, _)
DownFractalLoop(list, candle, index, offset, each_side) ==
    IF offset > each_side THEN Some(TRUE)
    ELSE LET adjacent_left == get_candle(list, index + offset)
             adjacent_right == get_candle(list, index - offset)
         IN IF candle # None /\ adjacent_left # None /\ adjacent_right # None
            THEN IF \/ Decimal(candle[1].high) <= Decimal(adjacent_left[1].high)
                    \/ Decimal(candle[1].high) <= Decimal(adjacent_right[1].high)
                 THEN Some(FALSE)
                 ELSE DownFractalLoop(list, candle, index, offset + 1, each_side)
            ELSE None

is_down_fractal(list, index, count) ==
    LET candle == get_candle(list, index)
        c == IF NotInt(count) THEN 3 ELSE count[1]
    IN IF c < 3 \/ c % 2 = 0 THEN None
       ELSE DownFractalLoop(list, candle, index, 1, (c - 1) \div 2)

-----------------------------------------------------------------------------
(* The state machine: one action per public method of Pair.  Every method  *)
(* reads self.data first, which builds the cache when it is missing.       *)

\* What reading Pair.data does to the state.
ReadData ==
    /\ \E read \in {data(_data, calls, source)} :
           _data' = read._data /\ calls' = read.calls
    /\ fetched' = IF calls' # calls THEN Some(source) ELSE fetched
    /\ UNCHANGED source

GetCandle(interval, index) ==
    /\ ReadData
    /\ last' = [op |-> "get_candle", interval |-> interval, index |-> index,
                result |-> get_candle(_get_interval_data(_data', interval), index)]

GetHighestHigh(interval, start_index, count) ==
    /\ ReadData
    /\ last' = [op |-> "get_highest_high", interval |-> interval,
                start_index |-> start_index, count |-> count,
                result |-> get_highest_high(_get_interval_data(_data', interval),
                                            start_index, count)]

GetLowestLow(interval, start_index, count) ==
    /\ ReadData
    /\ last' = [op |-> "get_lowest_low", interval |-> interval,
                start_index |-> start_index, count |-> count,
                result |-> get_lowest_low(_get_interval_data(_data', interval),
                                          start_index, count)]

IsUpFractal(interval, index, count) ==
    /\ ReadData
    /\ last' = [op |-> "is_up_fractal", interval |-> interval,
                index |-> index, count |-> count,
                result |-> is_up_fractal(_get_interval_data(_data', interval),
                                         index, count)]

IsDownFractal(interval, index, count) ==
    /\ ReadData
    /\ last' = [op |-> "is_down_fractal", interval |-> interval,
                index |-> index, count |-> count,
                result |-> is_down_fractal(_get_interval_data(_data', interval),
                                           index, count)]

-----------------------------------------------------------------------------------------------------------------------------------------------------
(* The data source and the whole program: any queries in any order, while  *)
(* the records of the data source change.                                  *)

\* The kline with open time t; its prices depend on t only.
Kline(t) ==
    [t |-> t,
     high |-> IF t % 2 = 1 THEN <<3, 0>> ELSE <<20, 1>>,
     low |-> IF t % 3 = 1 THEN <<1, 0>> ELSE <<20, 1>>]

Oldest(n) == [i \in 1..n |-> Kline(i)]

\* The responses of the data source: the klines 1..n, oldest or newest first.
Responses == UNION {{Oldest(n), reversed(Oldest(n))} : n \in 0..MaxFetch}

\* What the data source holds: any response for "1h", and for every other
\* interval either the same records or none.
Sources ==
    {[interval \in INTERVALS |-> IF interval = "1h" \/ same THEN r ELSE << >>] :
        r \in Responses, same \in BOOLEAN}

\* The records of the data source change (klines arrive, the order flips).
SourceChanges ==
    /\ \E s \in Sources : s # source /\ source' = s
    /\ UNCHANGED <<_data, calls, fetched, last>>

\* Optional integers of a range.
Opt(lo, hi) == {None} \cup {Some(i) : i \in lo..hi}

\* The state after Pair.__init__.
Constructed ==
    /\ _data = None
    /\ calls = [interval \in INTERVALS |-> 0]
    /\ fetched = None
    /\ last = [op |-> "none"]

Init ==
    /\ source \in Sources
    /\ Constructed

Next ==
    \/ SourceChanges
    \/ \E interval \in Intervals, index \in -(MaxFetch + 1)..MaxFetch :
           GetCandle(interval, index)
    \/ \E interval \in Intervals, start_index \in Opt(0, 1), count \in Opt(1, 1) :
           GetHighestHigh(interval, start_index, count)
    \/ \E interval \in Intervals, start_index \in Opt(0, 1), count \in Opt(1, 1) :
           GetLowestLow(interval, start_index, count)
    \/ \E interval \in Intervals, index \in 0..1, count \in Opt(-1, 4) :
           IsUpFractal(interval, index, count)
    \/ \E interval \in Intervals, index \in 0..1, count \in Opt(-1, 4) :
           IsDownFractal(interval, index, count)

Spec == Init /\ [][Next]_vars

-----------------------------------------------------------------------------
(* The queries as pure functions: the data source holds one list of klines *)
(* for "1h", drawn from all lists up to a length, and one query is made on *)
(* a freshly constructed Pair.                                             *)

\* The prices of a kline in the pure-function specifications: any <<high, low>>
\* with low <= high.
HighLow == {p \in RawPrices \X RawPrices : Decimal(p[2]) <= Decimal(p[1])}

\* The data source holds, for "1h", n klines with the prices hl[1..n], oldest
\* first, and nothing for the other intervals.
OneInterval(n, hl) ==
    [interval \in INTERVALS |->
        IF interval = "1h"
        THEN [i \in 1..n |-> [t |-> i, high |-> hl[i][1], low |-> hl[i][2]]]
        ELSE << >>]

\* No query has been made on the Pair yet.
Fresh == last.op = "none"

InitExtrema ==
    /\ \E n \in 0..MaxExtLen : \E hl \in [1..n -> HighLow] :
           source = OneInterval(n, hl)
    /\ Constructed

NextExtrema ==
    \/ \E interval \in {"1h", UnknownInterval},
          start_index \in Opt(0, MaxExtLen + 1), count \in Opt(0, MaxExtLen + 1) :
           Fresh /\ GetHighestHigh(interval, start_index, count)
    \/ \E interval \in {"1h", UnknownInterval},
          start_index \in Opt(0, MaxExtLen + 1), count \in Opt(0, MaxExtLen + 1) :
           Fresh /\ GetLowestLow(interval, start_index, count)

SpecExtrema == InitExtrema /\ [][NextExtrema]_vars

\* The widths asked of the fractal checks: unset, 3 and 5.
FractalCounts == {None, Some(3), Some(5)}

InitFractal ==
    /\ \E n \in 0..MaxFracLen : \E hl \in [1..n -> HighLow] :
           source = OneInterval(n, hl)
    /\ Constructed

NextFractal ==
    \/ \E index \in 0..(MaxFracLen - 1), count \in FractalCounts :
           Fresh /\ IsUpFractal("1h", index, count)
    \/ \E index \in 0..(MaxFracLen - 1), count \in FractalCounts :
           Fresh /\ IsDownFractal("1h", index, count)

SpecFractal == InitFractal /\ [][NextFractal]_vars

-----------------------------------------------------------------------------
(* What the properties below read from the state.                          *)

\* The list the last query read: the cached list of its interval.
Cached == _get_interval_data(_data, last.interval)

IsExtremaQuery == last.op \in {"get_highest_high", "get_lowest_low"}
IsFractalQuery == last.op \in {"is_up_fractal", "is_down_fractal"}

\* The start and the count an extrema query asked for (unset: 0 and the length).
AskedStart == IF last.start_index = None THEN 0 ELSE last.start_index[1]
AskedCount == IF last.count = None THEN Len(Cached) ELSE last.count[1]

\* The price an extrema query ranks klines by, larger being better.
Rank(k) ==
    IF last.op = "get_highest_high" THEN Decimal(k.high) ELSE 0 - Decimal(k.low)

\* The indices of the cached list inside the window the query asked for.
Window == {i \in 0..(Len(Cached) - 1) : AskedStart <= i /\ i < AskedStart + AskedCount}

-----------------------------------------------------------------------------
(* Extrema search (SpecExtrema).                                           *)

\* C1: for 0 <= start_index < n and 1 <= count <= n (or count unset),
\* get_highest_high and get_lowest_low return an index inside the window
\* whose price is the window's extreme and that is the lowest such index of
\* the window, also when a kline before the window has the same price.
C1_ExtremeInsideWindow ==
    (/\ IsExtremaQuery
     /\ AskedStart < Len(Cached)
     /\ (last.count = None \/ (1 <= AskedCount /\ AskedCount <= Len(Cached))))
    => /\ last.result # None
       /\ last.result[1] \in Window
       /\ \A i \in Window :
              /\ Rank(Cached[i + 1]) <= Rank(Cached[last.result[1] + 1])
              /\ i < last.result[1]
                    => Rank(Cached[i + 1]) # Rank(Cached[last.result[1] + 1])

\* C5: for start_index >= 0 and count >= 1 or unset, get_highest_high and
\* get_lowest_low return None exactly when count exceeds the length of the
\* list or start_index is at or past its end; a window that partly runs past
\* the end still gives an index.
C5_NotFoundIffNoWindow ==
    (IsExtremaQuery /\ (last.count = None \/ AskedCount >= 1))
    => (last.result = None
        <=> (AskedCount > Len(Cached) \/ AskedStart >= Len(Cached)))

\* C5: a window that runs past the end of a 3-kline list was searched.
C5_Witness ==
    /\ last.op = "get_highest_high"
    /\ Len(Cached) = 3
    /\ last.start_index = Some(2)
    /\ last.count = Some(3)
    /\ last.result # None

-----------------------------------------------------------------------------
(* Fractal checks (SpecFractal).                                           *)

\* The width a fractal query asked for (unset: 3) and its radius.
AskedWidth == IF last.count = None THEN 3 ELSE last.count[1]
Radius == (AskedWidth - 1) \div 2
ValidWidth == AskedWidth >= 3 /\ AskedWidth % 2 = 1

\* Position i is an index of the cached list.
InList(i) == 0 <= i /\ i < Len(Cached)

\* Every neighbour position of the query lies in the cached list.
AllNeighboursInList ==
    \A o \in 1..Radius : InList(last.index - o) /\ InList(last.index + o)

Low(i) == Decimal(Cached[i + 1].low)
High(i) == Decimal(Cached[i + 1].high)

C3_MissingNeighbourUnresolvable ==
    (/\ IsFractalQuery
     /\ ValidWidth
     /\ InList(last.index)
     /\ ~AllNeighboursInList)
    => /\ last.result # Some(TRUE)
       /\ (~InList(last.index - 1) \/ ~InList(last.index + 1))
              => last.result = None

GrowsOutwards(P(_)) ==
    \A o \in 0..(Radius - 1) :
        /\ P(last.index + o) < P(last.index + o + 1)
        /\ P(last.index - o) < P(last.index - o - 1)

\* The prices next to the centre fall strictly with the distance, on both sides.
FallsOutwards(P(_)) ==
    \A o \in 0..(Radius - 1) :
        /\ P(last.index + o) > P(last.index + o + 1)
        /\ P(last.index - o) > P(last.index - o - 1)

\* C7 as the specification states it: for a width >= 5, when is_up_fractal
\* returns True the lows are strictly monotonic on both sides of the centre
\* out to the radius, and when is_down_fractal returns True so are the highs.
C7_TrueMeansMonotonic ==
    (/\ IsFractalQuery
     /\ AskedWidth >= 5
     /\ AllNeighboursInList
     /\ last.result = Some(TRUE))
    => IF last.op = "is_up_fractal" THEN GrowsOutwards(Low)
       ELSE GrowsOutwards(High) \/ FallsOutwards(High)

\* C7 as amended: for a width >= 5, when is_up_fractal returns True the
\* centre's low is strictly less than the low at every position index - o and
\* index + o of the list, o = 1..radius, and when is_down_fractal returns True
\* the centre's high is strictly greater than the high at every such position;
\* the neighbours need not be ordered among themselves.
C7_TrueMeansCentreExtreme ==
    (IsFractalQuery /\ AskedWidth >= 5 /\ last.result = Some(TRUE))
    => \A o \in 1..Radius :
           \A i \in {j \in {last.index - o, last.index + o} : InList(j)} :
               IF last.op = "is_up_fractal" THEN Low(last.index) < Low(i)
               ELSE High(last.index) > High(i)

\* C7: a width-5 up fractal was found whose lows do not grow outwards.
C7_Witness ==
    /\ last.op = "is_up_fractal"
    /\ last.count = Some(5)
    /\ AllNeighboursInList
    /\ last.result = Some(TRUE)
    /\ Low(last.index + 1) > Low(last.index + 2)

-----------------------------------------------------------------------------
(* The cache and the argument checks (Spec).                               *)

\* C4: is_up_fractal and is_down_fractal return None for every count that is
\* even or less than 3, 0 and negative values included.
C4_InvalidCountUnresolvable ==
    (/\ IsFractalQuery
     /\ last.count # None
     /\ (AskedWidth < 3 \/ AskedWidth % 2 = 0))
    => last.result = None

\* The open times of a list grow, or fall, with the index.
TimesAscend(list) == \A i \in 1..(Len(list) - 1) : list[i].t < list[i + 1].t
TimesDescend(list) == \A i \in 1..(Len(list) - 1) : list[i].t > list[i + 1].t

\* The earliest open time of a non-empty list.
Earliest(list) ==
    CHOOSE t \in {list[i].t : i \in 1..Len(list)} :
        \A i \in 1..Len(list) : t <= list[i].t

\* C8 as the specification states it: every cached list is chronologically
\* ascending, whichever order the data source used, and get_candle(interval, 0)
\* is the earliest record fetched.
C8_CacheAscending ==
    _data # None
    => /\ \A interval \in INTERVALS : TimesAscend(_data[1][interval])
       /\ (/\ last.op = "get_candle"
           /\ last.interval \in INTERVALS
           /\ last.index = 0
           /\ Cached # << >>)
          => last.result[1].t = Earliest(fetched[1][last.interval])

\* C8 as amended: every cached list is the response of the data source in
\* the opposite order: ascending when the response was descending, descending
\* when the response was ascending, and get_candle(interval, 0) is the last
\* record of the response.
C8_CacheIsResponseBackwards ==
    _data # None
    => /\ \A interval \in INTERVALS :
              /\ Len(_data[1][interval]) = Len(fetched[1][interval])
              /\ TimesDescend(fetched[1][interval])
                    => TimesAscend(_data[1][interval])
              /\ TimesAscend(fetched[1][interval])
                    => TimesDescend(_data[1][interval])
       /\ (/\ last.op = "get_candle"
           /\ last.interval \in INTERVALS
           /\ last.index = 0
           /\ Cached # << >>)
          => last.result =
                 Some(fetched[1][last.interval][Len(fetched[1][last.interval])])

\* C8: get_candle(interval, 0) was asked of a cache built from an ascending
\* response of two records, and gave the later one.
C8_Witness ==
    /\ _data # None
    /\ last.op = "get_candle"
    /\ last.interval = "1h"
    /\ last.index = 0
    /\ Len(fetched[1]["1h"]) = 2
    /\ TimesAscend(fetched[1]["1h"])
    /\ last.result[1].t = 2

\* The query made by this step is the one made before it.
SameQueryAgain ==
    /\ last.op # "none"
    /\ last'.op = last.op
    /\ [last' EXCEPT !.result = None] = [last EXCEPT !.result = None]

\* C9: the data source is called at most once for each interval, a cache once
\* built never changes, and a query repeated with the same arguments gives
\* the same result, whatever the data source holds by then.
C9_FetchedOnceCacheFrozen ==
    [][/\ \A interval \in INTERVALS : calls'[interval] <= 1
       /\ _data # None => _data' = _data
       /\ SameQueryAgain => last'.result = last.result]_vars

\* C9: every interval was fetched once, and the last get_candle gave a result
\* that the records the data source holds now would not give.
C9_Witness ==
    /\ _data # None
    /\ \A interval \in INTERVALS : calls[interval] = 1
    /\ last.op = "get_candle"
    /\ last.interval \in INTERVALS
    /\ last.result # get_candle(reversed(source[last.interval]), last.index)

\* C10 as the specification states it: the data source is called for an
\* interval only by a query that names that interval.
C10_FetchOnlyNamedInterval ==
    [][\A interval \in INTERVALS :
           calls'[interval] > calls[interval] => last'.interval = interval]_vars

\* C10 as amended: nothing is fetched at construction; the first query on
\* the Pair, whichever interval it names, fetches every interval of INTERVALS
\* once, and no later query fetches anything.
C10_FirstQueryFetchesAll ==
    /\ last.op = "none"
          => (_data = None /\ \A interval \in INTERVALS : calls[interval] = 0)
    /\ last.op # "none"
          => /\ _data # None
             /\ DOMAIN _data[1] = INTERVALS
             /\ \A interval \in INTERVALS : calls[interval] = 1

\* C10: a query that named "1h" has fetched "1d" as well.
C10_Witness ==
    /\ last.op # "none"
    /\ last.interval = "1h"
    /\ calls["1d"] = 1
    /\ _data[1]["1d"] # << >>

=============================================================================
